---- MODULE Spec2Model ----
(* Banker's algorithm (src/main.rs): the interactive setup of              *)
(* BankersAlgorithm::new, Process::new and the safety check is_safe_state. *)
EXTENDS Integers, Sequences, FiniteSets, TLC

VARIABLES pc, resources, processes, total_allocated, allocation, max_need,
          created, failed, available, work, finish, safe_sequence,
          found_process_this_pass, i, passes, result, previous

vars == <<pc, resources, processes, total_allocated, allocation, max_need,
          created, failed, available, work, finish, safe_sequence,
          found_process_this_pass, i, passes, result, previous>>

setupVars == <<resources, processes, total_allocated, allocation, max_need,
               created, failed, available>>

checkVars == <<work, finish, safe_sequence, found_process_this_pass, i,
               passes, result, previous>>

(* ---------------------------------------------------------------- bounds *)
MaxProcs == 3
MaxLen == 2
MaxFailed == 1

(* u8 range of every entered number *)
U8Modulus == 256

(* numbers the operator types; 255 is the largest u8 *)
Vals == {0, 1, 2, 255}
SmallVals == {0, 1}

VecInputs == UNION {[1..n -> Vals] : n \in 0..MaxLen}

RECURSIVE Units(_)
Units(r) == IF r = <<>> THEN 0 ELSE r[1] + Units(Tail(r))

(* capacity lines the operator types: any single-resource line, and        *)
(* multi-resource lines over the small values holding at most two units    *)
ResourceVecs ==
    {r \in VecInputs :
        \/ Len(r) <= 1
        \/ (\A k \in 1..Len(r) : r[k] \in SmallVals) /\ Units(r) <= 2}

(* Option<Vec<u8>> returned by get_numbers_from_input *)
NoneInput == [some |-> FALSE, v |-> <<>>]
SomeInput(v) == [some |-> TRUE, v |-> v]
Inputs == {SomeInput(v) : v \in VecInputs} \cup {NoneInput}
ResourceInputs == {SomeInput(v) : v \in ResourceVecs} \cup {NoneInput}

(* ------------------------------------------------------------ Process::new *)
NoProcess == [id |-> 0, allocation |-> <<>>, max_need |-> <<>>, need |-> <<>>]
ErrResult(e) == [ok |-> FALSE, err |-> e, proc |-> NoProcess]
OkResult(p) == [ok |-> TRUE, err |-> "", proc |-> p]
NotCreated == [ok |-> FALSE, err |-> "not called", proc |-> NoProcess]

RECURSIVE NeedLoop(_, _, _, _, _)
NeedLoop(id, alloc, max, k, need) ==
    IF k > Len(alloc)
    THEN OkResult([id |-> id, allocation |-> alloc, max_need |-> max, need |-> need])
    ELSE IF alloc[k] > max[k]
         THEN ErrResult("exceeds")
         ELSE NeedLoop(id, alloc, max, k + 1, Append(need, max[k] - alloc[k]))

Process_newSaturating(id, alloc, max) ==
    IF Len(alloc) # Len(max)
    THEN ErrResult("mismatch")
    ELSE OkResult([id |-> id, allocation |-> alloc, max_need |-> max,
                   need |-> [k \in 1..Len(alloc) |->
                               IF alloc[k] > max[k] THEN 0 ELSE max[k] - alloc[k]]])

Process_new(id, alloc, max) ==
    IF Len(alloc) # Len(max)
    THEN ErrResult("mismatch")
    ELSE NeedLoop(id, alloc, max, 1, <<>>)

(* ------------------------------------------------------ BankersAlgorithm::new *)
Zeros(n) == [k \in 1..n |-> 0]

Fits(v, limit) == \A k \in 1..Len(limit) : ~(v[k] > limit[k])

ReadResources ==
    /\ pc = "resources"
    /\ \E inp \in ResourceInputs :
         IF inp.some /\ inp.v # <<>>
         THEN /\ resources' = inp.v
              /\ total_allocated' = Zeros(Len(inp.v))
              /\ processes' = <<>>
              /\ pc' = "alloc"
              /\ UNCHANGED <<allocation, max_need, created, failed, available>>
         ELSE UNCHANGED <<pc, setupVars>>
    /\ UNCHANGED checkVars

AllocationAcceptedNoLimit(inp) ==
    inp.some /\ Len(inp.v) = Len(resources)

AllocationAccepted(inp) ==
    inp.some /\ Len(inp.v) = Len(resources) /\ Fits(inp.v, resources)

ReadAllocation ==
    /\ pc = "alloc"
    /\ \E inp \in Inputs :
         IF AllocationAccepted(inp)
         THEN /\ allocation' = inp.v
              /\ pc' = "max"
         ELSE UNCHANGED <<pc, allocation>>
    /\ UNCHANGED <<resources, processes, total_allocated, max_need, created,
                   failed, available>>
    /\ UNCHANGED checkVars

MaxNeedAcceptedNoLimit(inp) ==
    inp.some /\ Len(inp.v) = Len(resources)

MaxNeedAccepted(inp) ==
    inp.some /\ Len(inp.v) = Len(resources) /\ Fits(inp.v, resources)

ReadMaxNeed ==
    /\ pc = "max"
    /\ \E inp \in Inputs :
         IF MaxNeedAccepted(inp)
         THEN /\ max_need' = inp.v
              /\ pc' = "create"
         ELSE UNCHANGED <<pc, max_need>>
    /\ UNCHANGED <<resources, processes, total_allocated, allocation, created,
                   failed, available>>
    /\ UNCHANGED checkVars

Overflows(total, alloc) == \E k \in 1..Len(total) : total[k] + alloc[k] >= U8Modulus

AddWrapped(total, alloc) == [k \in 1..Len(total) |-> (total[k] + alloc[k]) % U8Modulus]

(* process_id = processes.len(), taken at the top of every iteration *)
NextProcessIdPerAttempt == Len(processes) + failed

NextProcessId == Len(processes)

(* Ok arm: the totals are accumulated in u8, then the process is pushed;   *)
(* an overflowing += panics with overflow checks on and wraps without them *)
CommitProcess(p) ==
    \/ /\ processes' = Append(processes, p)
       /\ total_allocated' = AddWrapped(total_allocated, p.allocation)
       /\ allocation' = <<>>
       /\ max_need' = <<>>
       /\ pc' = "ask"
       /\ UNCHANGED failed
    \/ /\ Overflows(total_allocated, p.allocation)
       /\ pc' = "panicked"
       /\ UNCHANGED <<processes, total_allocated, allocation, max_need, failed>>

RejectCandidatePartialCommit ==
    /\ failed < MaxFailed
    /\ failed' = failed + 1
    /\ allocation' = <<>>
    /\ max_need' = <<>>
    /\ pc' = "alloc"
    /\ total_allocated' = AddWrapped(total_allocated, allocation)
    /\ UNCHANGED processes

(* Err arm: report and `continue` *)
RejectCandidate ==
    /\ failed < MaxFailed
    /\ failed' = failed + 1
    /\ allocation' = <<>>
    /\ max_need' = <<>>
    /\ pc' = "alloc"
    /\ UNCHANGED <<processes, total_allocated>>

CreateProcess ==
    /\ pc = "create"
    /\ LET r == Process_new(NextProcessId, allocation, max_need)
       IN /\ created' = r
          /\ IF r.ok THEN CommitProcess(r.proc) ELSE RejectCandidate
    /\ UNCHANGED <<resources, available>>
    /\ UNCHANGED checkVars

AskAnother ==
    /\ pc = "ask"
    /\ \E yes \in BOOLEAN :
         IF yes
         THEN /\ Len(processes) < MaxProcs
              /\ pc' = "alloc"
         ELSE IF processes = <<>>
              THEN pc' = "failed"
              ELSE pc' = "finalize"
    /\ UNCHANGED setupVars
    /\ UNCHANGED checkVars

ComputeAvailable(res, total) == [k \in 1..Len(res) |-> res[k] - total[k]]

Finalize ==
    /\ pc = "finalize"
    /\ LET avail == ComputeAvailable(resources, total_allocated)
           possible_state == \A k \in 1..Len(resources) : ~(avail[k] < 0)
       IN IF possible_state
          THEN /\ available' = avail
               /\ pc' = "check"
          ELSE /\ pc' = "failed"
               /\ UNCHANGED available
    /\ UNCHANGED <<resources, processes, total_allocated, allocation, max_need,
                   created, failed>>
    /\ UNCHANGED checkVars

(* ------------------------------------------------------------ is_safe_state *)
Pending == [tag |-> "pending", seq |-> <<>>]

CanAllocateLastOnly(need, w, k) == ~(need[Len(w)] > w[Len(w)])

CanAllocateStrict(need, w, k) == \A r \in 1..Len(w) : ~(need[r] >= w[r])

RECURSIVE CanAllocate(_, _, _)
CanAllocate(need, w, k) ==
    IF k > Len(w)
    THEN TRUE
    ELSE IF need[k] > w[k]
         THEN FALSE
         ELSE CanAllocate(need, w, k + 1)

ReleaseSubtract(w, alloc) == [k \in 1..Len(w) |-> w[k] - alloc[k]]

ReleaseNothing(w, alloc) == w

Release(w, alloc) == [k \in 1..Len(w) |-> w[k] + alloc[k]]

StartCheck ==
    /\ pc = "check"
    /\ work' = available
    /\ finish' = [n \in 1..Len(processes) |-> FALSE]
    /\ safe_sequence' = <<>>
    /\ passes' = 0
    /\ pc' = "loop"
    /\ UNCHANGED <<found_process_this_pass, i, result, previous>>
    /\ UNCHANGED setupVars

BeginPassFromOne ==
    /\ pc = "loop"
    /\ found_process_this_pass' = FALSE
    /\ i' = 1
    /\ passes' = passes + 1
    /\ pc' = "for"
    /\ UNCHANGED <<work, finish, safe_sequence, result, previous>>
    /\ UNCHANGED setupVars

BeginPass ==
    /\ pc = "loop"
    /\ found_process_this_pass' = FALSE
    /\ i' = 0
    /\ passes' = passes + 1
    /\ pc' = "for"
    /\ UNCHANGED <<work, finish, safe_sequence, result, previous>>
    /\ UNCHANGED setupVars

ScanProcessNoFinish ==
    /\ pc = "for"
    /\ i < Len(processes)
    /\ LET p == processes[i + 1]
       IN IF ~finish[i + 1] /\ CanAllocate(p.need, work, 1)
          THEN /\ work' = Release(work, p.allocation)
               /\ safe_sequence' = Append(safe_sequence, p.id)
               /\ found_process_this_pass' = TRUE
               /\ UNCHANGED finish
          ELSE UNCHANGED <<work, finish, safe_sequence, found_process_this_pass>>
    /\ i' = i + 1
    /\ UNCHANGED <<pc, passes, result, previous>>
    /\ UNCHANGED setupVars

ScanProcessWritesAvailable ==
    /\ pc = "for"
    /\ i < Len(processes)
    /\ LET p == processes[i + 1]
       IN IF ~finish[i + 1] /\ CanAllocate(p.need, work, 1)
          THEN /\ work' = Release(work, p.allocation)
               /\ available' = Release(work, p.allocation)
               /\ finish' = [finish EXCEPT ![i + 1] = TRUE]
               /\ safe_sequence' = Append(safe_sequence, p.id)
               /\ found_process_this_pass' = TRUE
          ELSE UNCHANGED <<work, available, finish, safe_sequence,
                           found_process_this_pass>>
    /\ i' = i + 1
    /\ UNCHANGED <<pc, passes, result, previous>>
    /\ UNCHANGED <<resources, processes, total_allocated, allocation, max_need,
                   created, failed>>

ScanProcessOneGrantPerPass ==
    /\ pc = "for"
    /\ i < Len(processes)
    /\ LET p == processes[i + 1]
       IN IF ~finish[i + 1] /\ CanAllocate(p.need, work, 1)
          THEN /\ work' = Release(work, p.allocation)
               /\ finish' = [finish EXCEPT ![i + 1] = TRUE]
               /\ safe_sequence' = Append(safe_sequence, p.id)
               /\ found_process_this_pass' = TRUE
               /\ i' = Len(processes)
          ELSE /\ UNCHANGED <<work, finish, safe_sequence, found_process_this_pass>>
               /\ i' = i + 1
    /\ UNCHANGED <<pc, passes, result, previous>>
    /\ UNCHANGED setupVars

ScanProcessFoundAlways ==
    /\ pc = "for"
    /\ i < Len(processes)
    /\ LET p == processes[i + 1]
       IN IF ~finish[i + 1] /\ CanAllocate(p.need, work, 1)
          THEN /\ work' = Release(work, p.allocation)
               /\ finish' = [finish EXCEPT ![i + 1] = TRUE]
               /\ safe_sequence' = Append(safe_sequence, p.id)
          ELSE UNCHANGED <<work, finish, safe_sequence>>
    /\ found_process_this_pass' = (found_process_this_pass \/ ~finish[i + 1])
    /\ i' = i + 1
    /\ UNCHANGED <<pc, passes, result, previous>>
    /\ UNCHANGED setupVars

ScanProcess ==
    /\ pc = "for"
    /\ i < Len(processes)
    /\ LET p == processes[i + 1]
       IN IF ~finish[i + 1] /\ CanAllocate(p.need, work, 1)
          THEN /\ work' = Release(work, p.allocation)
               /\ finish' = [finish EXCEPT ![i + 1] = TRUE]
               /\ safe_sequence' = Append(safe_sequence, p.id)
               /\ found_process_this_pass' = TRUE
          ELSE UNCHANGED <<work, finish, safe_sequence, found_process_this_pass>>
    /\ i' = i + 1
    /\ UNCHANGED <<pc, passes, result, previous>>
    /\ UNCHANGED setupVars

EndPassSinglePass ==
    /\ pc = "for"
    /\ i = Len(processes)
    /\ pc' = "ret"
    /\ UNCHANGED checkVars
    /\ UNCHANGED setupVars

EndPass ==
    /\ pc = "for"
    /\ i = Len(processes)
    /\ pc' = IF found_process_this_pass THEN "loop" ELSE "ret"
    /\ UNCHANGED checkVars
    /\ UNCHANGED setupVars

Return ==
    /\ pc = "ret"
    /\ result' = IF \A n \in 1..Len(finish) : finish[n]
                 THEN [tag |-> "Some", seq |-> safe_sequence]
                 ELSE [tag |-> "None", seq |-> <<>>]
    /\ pc' = "done"
    /\ UNCHANGED <<work, finish, safe_sequence, found_process_this_pass, i, passes,
                   previous>>
    /\ UNCHANGED setupVars

(* ---------------------------------------------------------------- program *)
Init ==
    /\ pc = "resources"
    /\ resources = <<>>
    /\ processes = <<>>
    /\ total_allocated = <<>>
    /\ allocation = <<>>
    /\ max_need = <<>>
    /\ created = NotCreated
    /\ failed = 0
    /\ available = <<>>
    /\ work = <<>>
    /\ finish = <<>>
    /\ safe_sequence = <<>>
    /\ found_process_this_pass = FALSE
    /\ i = 0
    /\ passes = 0
    /\ result = Pending
    /\ previous = Pending

Next ==
    \/ ReadResources
    \/ ReadAllocation
    \/ ReadMaxNeed
    \/ CreateProcess
    \/ AskAnother
    \/ Finalize
    \/ StartCheck
    \/ BeginPass
    \/ ScanProcess
    \/ EndPass
    \/ Return

Spec == Init /\ [][Next]_vars

(* is_safe_state is straight-line sequential code: once called it keeps    *)
(* executing until it returns                                              *)
CheckStep == StartCheck \/ BeginPass \/ ScanProcess \/ EndPass \/ Return

SpecLive == Init /\ [][Next]_vars /\ WF_vars(CheckStep)

(* a driver that calls is_safe_state a second time on the same value,      *)
(* keeping the first verdict for comparison                                *)
CallAgain ==
    /\ pc = "done"
    /\ previous = Pending
    /\ previous' = result
    /\ pc' = "check"
    /\ UNCHANGED <<work, finish, safe_sequence, found_process_this_pass, i,
                   passes, result>>
    /\ UNCHANGED setupVars

NextTwice == Next \/ CallAgain

SpecTwice == Init /\ [][NextTwice]_vars

(* ------------------------------------------------- Scenario A (spec.md 8) *)
ScenarioResources == <<10, 5, 7>>
ScenarioAllocation == << <<0, 1, 0>>, <<2, 0, 0>>, <<3, 0, 2>>, <<2, 1, 1>>, <<0, 0, 2>> >>
ScenarioMaxNeed == << <<7, 5, 3>>, <<3, 2, 2>>, <<9, 0, 2>>, <<2, 2, 2>>, <<4, 3, 3>> >>

ScenarioOrders ==
    {f \in [1..Len(ScenarioAllocation) -> 1..Len(ScenarioAllocation)] :
        \A a, b \in 1..Len(ScenarioAllocation) : f[a] = f[b] => a = b}

(* the processes committed when the scenario's lines are entered in order f *)
Committed(f) ==
    [n \in 1..Len(ScenarioAllocation) |->
        Process_new(n - 1, ScenarioAllocation[f[n]], ScenarioMaxNeed[f[n]]).proc]

RECURSIVE Accumulated(_, _)
Accumulated(ps, n) ==
    IF n = 0 THEN Zeros(Len(ScenarioResources))
    ELSE AddWrapped(Accumulated(ps, n - 1), ps[n].allocation)

(* the program at the end of the setup loop, the five processes of         *)
(* Scenario A having been entered in any order                             *)
InitA ==
    /\ pc = "finalize"
    /\ resources = ScenarioResources
    /\ \E f \in ScenarioOrders :
         /\ processes = Committed(f)
         /\ total_allocated = Accumulated(Committed(f), Len(ScenarioAllocation))
         /\ created = OkResult(Committed(f)[Len(ScenarioAllocation)])
    /\ allocation = <<>>
    /\ max_need = <<>>
    /\ failed = 0
    /\ available = <<>>
    /\ work = <<>>
    /\ finish = <<>>
    /\ safe_sequence = <<>>
    /\ found_process_this_pass = FALSE
    /\ i = 0
    /\ passes = 0
    /\ result = Pending
    /\ previous = Pending

NextA ==
    \/ Finalize
    \/ StartCheck
    \/ BeginPass
    \/ ScanProcess
    \/ EndPass
    \/ Return

SpecA == InitA /\ [][NextA]_vars

(* ------------------------------------------ Process::new on arbitrary input *)
InitNew ==
    /\ pc = "new_call"
    /\ allocation \in VecInputs
    /\ max_need \in VecInputs
    /\ i \in 0..(MaxProcs - 1)
    /\ resources = <<>>
    /\ processes = <<>>
    /\ total_allocated = <<>>
    /\ created = NotCreated
    /\ failed = 0
    /\ available = <<>>
    /\ work = <<>>
    /\ finish = <<>>
    /\ safe_sequence = <<>>
    /\ found_process_this_pass = FALSE
    /\ passes = 0
    /\ result = Pending
    /\ previous = Pending

CallProcessNew ==
    /\ pc = "new_call"
    /\ created' = Process_new(i, allocation, max_need)
    /\ pc' = "new_ret"
    /\ UNCHANGED <<resources, processes, total_allocated, allocation, max_need,
                   failed, available>>
    /\ UNCHANGED checkVars

NextNew == CallProcessNew

SpecNew == InitNew /\ [][NextNew]_vars

(* ----------------------------------------------------------- properties *)
NumResources == Len(resources)
NumProcesses == Len(processes)

(* a BankersAlgorithm value exists: new() returned Some *)
Finalized == pc \in {"check", "loop", "for", "ret", "done"}

RECURSIVE SumAllocation(_, _)
SumAllocation(ps, k) ==
    IF ps = <<>> THEN 0 ELSE ps[1].allocation[k] + SumAllocation(Tail(ps), k)

Overcommitted == \E k \in 1..NumResources : SumAllocation(processes, k) > resources[k]

(* units of resource k released by the first j-1 processes of the order seq *)
RECURSIVE ReleasedBefore(_, _, _)
ReleasedBefore(seq, j, k) ==
    IF j <= 1 THEN 0
    ELSE processes[seq[j - 1] + 1].allocation[k] + ReleasedBefore(seq, j - 1, k)

IsOrdering(seq) ==
    /\ Len(seq) = NumProcesses
    /\ \A n \in 0..(NumProcesses - 1) : Cardinality({j \in 1..Len(seq) : seq[j] = n}) = 1

IsSafeOrder(seq) ==
    \A j \in 1..Len(seq) : \A k \in 1..NumResources :
        processes[seq[j] + 1].need[k] <= available[k] + ReleasedBefore(seq, j, k)

Orderings == {s \in [1..NumProcesses -> 0..(NumProcesses - 1)] : IsOrdering(s)}

ExistsSafeOrder == \E s \in Orderings : IsSafeOrder(s)

(* C1: a returned sequence holds every process id exactly once and is a    *)
(* safe order: each process's need fits in available plus the allocations  *)
(* of the processes placed before it.                                      *)
C1_ReturnedSequenceIsSafeOrder ==
    (pc = "done" /\ result.tag = "Some") =>
        (IsOrdering(result.seq) /\ IsSafeOrder(result.seq))

C1_Witness ==
    /\ pc = "done"
    /\ result.tag = "Some"
    /\ NumProcesses >= 2
    /\ NumResources = 2
    /\ result.seq[1] # 0
    /\ \E n \in 1..NumProcesses : \E k \in 1..NumResources :
          processes[n].need[k] > available[k]

(* C2: the check returns None exactly when no ordering of all the          *)
(* processes is a safe order.                                              *)
C2_NoneIffNoSafeOrder ==
    pc = "done" => ((result.tag = "None") <=> ~ExistsSafeOrder)

C2_Witness ==
    /\ pc = "done"
    /\ result.tag = "None"
    /\ NumProcesses >= 2
    /\ \E n \in 1..NumProcesses : finish[n]

(* C3: in every finalized system the committed allocations plus available  *)
(* equal the capacity, for every resource index.                           *)
C3_Conservation ==
    Finalized =>
        \A k \in 1..NumResources :
            SumAllocation(processes, k) + available[k] = resources[k]

(* C4: whenever the committed allocations of some resource exceed its      *)
(* capacity, finalization fails and produces no system state.              *)
C4_OvercommittedFails ==
    [][(pc = "finalize" /\ Overcommitted /\ pc' # pc) => pc' = "failed"]_vars

(* C5: a failed candidate construction leaves the committed processes, the *)
(* running totals and the capacities unchanged, and the next attempt is    *)
(* for the same process id.                                                *)
C5_FailedAdditionChangesNothing ==
    [][(pc = "create" /\ pc' # pc
          /\ ~Process_new(NextProcessId, allocation, max_need).ok) =>
        /\ processes' = processes
        /\ total_allocated' = total_allocated
        /\ resources' = resources
        /\ pc' = "alloc"
        /\ NextProcessId' = NextProcessId]_vars

C5_Witness ==
    /\ pc = "alloc"
    /\ failed >= 1
    /\ ~created.ok
    /\ NumProcesses >= 1
    /\ \E k \in 1..NumResources : total_allocated[k] > 0

(* C6: Process::new fails exactly when the lengths differ or some          *)
(* allocation exceeds its max need; otherwise it stores allocation and     *)
(* max_need as given with need = max_need - allocation >= 0.               *)
C6_ProcessNewContract ==
    pc = "new_ret" =>
        /\ created.ok <=>
              (/\ Len(allocation) = Len(max_need)
               /\ \A k \in 1..Len(allocation) : allocation[k] <= max_need[k])
        /\ created.ok =>
              /\ created.proc.id = i
              /\ created.proc.allocation = allocation
              /\ created.proc.max_need = max_need
              /\ Len(created.proc.need) = Len(allocation)
              /\ \A k \in 1..Len(allocation) :
                    /\ created.proc.need[k] = max_need[k] - allocation[k]
                    /\ created.proc.need[k] >= 0

C6_Witness ==
    /\ pc = "new_ret"
    /\ created.ok
    /\ Len(allocation) = 2
    /\ created.proc.need[1] > 0
    /\ created.proc.allocation[2] > 0

(* C7 as stated: a process is committed only if its allocation fits in the *)
(* capacity left over by the processes committed before it.                *)
C7_CommitWithinRemainingCapacity ==
    [][Len(processes') > Len(processes) =>
        \A k \in 1..NumResources :
            processes'[Len(processes')].allocation[k]
                <= resources[k] - SumAllocation(processes, k)]_vars

(* C7 amended: an allocation line is accepted, and a process committed,    *)
(* only if its allocation does not exceed the total capacity of each       *)
(* resource type.                                                          *)
C7_CommitWithinTotalCapacity ==
    [][/\ (pc = "alloc" /\ pc' = "max") =>
            \A k \in 1..NumResources : allocation'[k] <= resources[k]
       /\ Len(processes') > Len(processes) =>
            \A k \in 1..NumResources :
                processes'[Len(processes')].allocation[k] <= resources[k]]_vars

C7_Witness ==
    /\ NumProcesses >= 2
    /\ pc = "ask"
    /\ \E k \in 1..NumResources :
          /\ processes[NumProcesses].allocation[k] > 0
          /\ SumAllocation(processes, k) > resources[k]

(* C8: every committed process has allocation and max_need within the      *)
(* capacity, and its three vectors are as long as the capacity vector.     *)
C8_CommittedWithinCapacity ==
    \A n \in 1..NumProcesses :
        /\ Len(processes[n].allocation) = NumResources
        /\ Len(processes[n].max_need) = NumResources
        /\ Len(processes[n].need) = NumResources
        /\ \A k \in 1..NumResources :
              /\ processes[n].allocation[k] <= resources[k]
              /\ processes[n].max_need[k] <= resources[k]

C8_Witness ==
    /\ Finalized
    /\ NumProcesses >= 2
    /\ NumResources = 2
    /\ \E n \in 1..NumProcesses : processes[n].max_need = resources

(* C9: the process stored at position n (counting from zero) has id n,     *)
(* whatever number of failed attempts came in between.                     *)
C9_SequentialIds ==
    \A n \in 1..NumProcesses : processes[n].id = n - 1

C9_Witness ==
    /\ NumProcesses >= 2
    /\ failed >= 1
    /\ created.ok

(* C10: the safety check starts only on a state with at least one process  *)
(* and no negative available entry, and never runs when the setup ended    *)
(* with no process or with an overcommitted resource.                      *)
C10_CheckOnlyAfterValidSetup ==
    Finalized =>
        /\ NumProcesses >= 1
        /\ \A k \in 1..NumResources : available[k] >= 0
        /\ ~Overcommitted

FinishedCount == Cardinality({n \in 1..Len(finish) : finish[n]})

(* C11: the safety check terminates on every finalized state; the outer    *)
(* loop stops at the first full pass that finishes no process, and every   *)
(* other pass finishes at least one previously unfinished process.         *)
C11_CheckTerminates ==
    /\ (pc = "check") ~> (pc = "done")
    /\ [][/\ (pc = "loop" /\ pc' = "for") => ~found_process_this_pass'
          /\ (pc = "for" /\ pc' = "for") =>
                /\ FinishedCount' >= FinishedCount
                /\ found_process_this_pass' <=>
                      (found_process_this_pass \/ FinishedCount' > FinishedCount)
          /\ (pc = "for" /\ pc' # "for") =>
                /\ i = NumProcesses
                /\ pc' = "ret" <=> ~found_process_this_pass
                /\ pc' = "loop" <=> found_process_this_pass]_vars

C11_Witness ==
    /\ pc = "done"
    /\ passes >= 3
    /\ FinishedCount >= 2

(* C12: a call of the safety check leaves available, the capacities and    *)
(* every process unchanged, and a second call on the same state returns    *)
(* the same verdict and the same sequence as the first.                    *)
C12_CheckIsPure ==
    /\ []((pc = "done" /\ previous # Pending) => result = previous)
    /\ [][(Finalized /\ Finalized') =>
            /\ available' = available
            /\ resources' = resources
            /\ processes' = processes]_vars

C12_Witness ==
    /\ pc = "done"
    /\ previous.tag = "Some"
    /\ Len(previous.seq) >= 2
    /\ work # available
    /\ NumResources = 2

InCheck == pc \in {"loop", "for", "ret", "done"}

(* units of resource k released so far by the finished processes *)
RECURSIVE ReleasedByFinished(_, _)
ReleasedByFinished(n, k) ==
    IF n = 0 THEN 0
    ELSE (IF finish[n] THEN processes[n].allocation[k] ELSE 0)
         + ReleasedByFinished(n - 1, k)

IdentityOrder == [n \in 1..Len(ScenarioAllocation) |-> n]

(* C13: a pass scans in ascending id order and a grant is added to work at *)
(* once, so every later test of the pass sees it; on Scenario A the check  *)
(* returns exactly P1, P3, P4, P0, P2.                                     *)
C13_IncrementalWithinPass ==
    /\ [](InCheck => \A k \in 1..NumResources :
              work[k] = available[k] + ReleasedByFinished(NumProcesses, k))
    /\ [][(pc = "for" /\ pc' = "for") =>
            /\ i' = i + 1
            /\ FinishedCount' > FinishedCount <=>
                 (/\ ~finish[i + 1]
                  /\ \A k \in 1..NumResources : processes[i + 1].need[k] <= work[k])
            /\ FinishedCount' > FinishedCount =>
                 (finish'[i + 1] /\ safe_sequence' = Append(safe_sequence, i))]_vars
    /\ []((pc = "done" /\ processes = Committed(IdentityOrder)) =>
              result = [tag |-> "Some", seq |-> <<1, 3, 4, 0, 2>>])

C13_Witness ==
    /\ pc = "done"
    /\ processes = Committed(IdentityOrder)
    /\ result.seq = <<1, 3, 4, 0, 2>>
    /\ passes = 3
    /\ \E k \in 1..NumResources : processes[5].need[k] > available[k]

(* C14: a finalized system of one process whose need is all zeros is       *)
(* granted in the first pass and the check returns the sequence [0],       *)
(* whatever the capacities and available are.                              *)
C14_SingleSatisfiedProcessIsSafe ==
    (/\ Finalized
     /\ NumProcesses = 1
     /\ \A k \in 1..NumResources : processes[1].need[k] = 0) =>
        /\ (pc = "for" /\ i >= 1) => (passes >= 1 /\ safe_sequence = <<0>> /\ finish[1])
        /\ pc \in {"ret", "done"} => safe_sequence = <<0>>
        /\ pc = "done" => result = [tag |-> "Some", seq |-> <<0>>]

C14_Witness ==
    /\ pc = "done"
    /\ result = [tag |-> "Some", seq |-> <<0>>]
    /\ NumProcesses = 1
    /\ NumResources = 2
    /\ processes[1].need = <<0, 0>>
    /\ available[1] = 0
    /\ resources[1] > 0

(* C15: the running total of every resource equals the sum of the          *)
(* committed allocations; the 8-bit accumulation never overflows or wraps. *)
C15_RunningTotalExact ==
    /\ pc # "panicked"
    /\ \A k \in 1..Len(total_allocated) :
          total_allocated[k] = SumAllocation(processes, k)

NeedFits(n, w) == \A k \in 1..NumResources : processes[n].need[k] <= w[k]

GrantStep == pc = "for" /\ Len(safe_sequence') = Len(safe_sequence) + 1

Granted == safe_sequence'[Len(safe_sequence')]

(* C16 as stated: at every grant the granted process is the lowest-id      *)
(* unfinished process whose need fits within the current work vector.      *)
C16_EveryGrantIsLowestFeasible ==
    [][GrantStep =>
        \A n \in 1..NumProcesses :
            (~finish[n] /\ NeedFits(n, work)) => processes[n].id >= Granted]_vars

(* C16 amended: the first grant of a pass goes to the lowest-id unfinished *)
(* process whose need fits the current work; a later grant of the pass     *)
(* goes to the lowest-id such process among those not yet scanned in it.   *)
C16_GrantIsLowestFeasibleNotYetScanned ==
    [][GrantStep =>
        /\ ~found_process_this_pass =>
              \A n \in 1..NumProcesses :
                  (~finish[n] /\ NeedFits(n, work)) => processes[n].id >= Granted
        /\ \A n \in (i + 1)..NumProcesses :
              (~finish[n] /\ NeedFits(n, work)) => processes[n].id >= Granted
        /\ ~finish[Granted + 1] /\ NeedFits(Granted + 1, work)]_vars

(* a grant was just made to process i-1 although a lower-id unfinished     *)
(* process fitted the work vector as it stood before that grant            *)
C16_Witness ==
    /\ pc = "for"
    /\ i >= 2
    /\ safe_sequence # <<>>
    /\ safe_sequence[Len(safe_sequence)] = i - 1
    /\ \E n \in 1..(i - 1) :
          /\ ~finish[n]
          /\ \A k \in 1..NumResources :
                processes[n].need[k] <= work[k] - processes[i].allocation[k]

(* C17 as stated: the number of passes of the outer loop is at most the    *)
(* number of processes.                                                    *)
C17_PassesAtMostProcesses ==
    InCheck => passes <= NumProcesses

(* C17 amended: the number of passes is at most the number of processes    *)
(* plus one, the last pass being the one that grants nothing.              *)
C17_PassesAtMostProcessesPlusOne ==
    InCheck => passes <= NumProcesses + 1

C17_Witness ==
    /\ pc = "done"
    /\ NumProcesses >= 2
    /\ passes = NumProcesses + 1

(* C18: during the safety check work[k] >= available[k] >= 0 and work[k]   *)
(* never decreases; a finished process is never marked unfinished and is   *)
(* never granted again.                                                    *)
C18_WorkMonotoneNonNegative ==
    /\ [](InCheck => \A k \in 1..NumResources :
              work[k] >= available[k] /\ available[k] >= 0)
    /\ [][(InCheck /\ InCheck') =>
            /\ \A k \in 1..NumResources : work'[k] >= work[k]
            /\ \A n \in 1..NumProcesses : finish[n] => finish'[n]
            /\ GrantStep =>
                 (/\ ~finish[Granted + 1]
                  /\ \A j \in 1..Len(safe_sequence) : safe_sequence[j] # Granted)]_vars

C18_Witness ==
    /\ pc = "done"
    /\ passes >= 3
    /\ FinishedCount >= 2
    /\ \E k \in 1..NumResources : work[k] > available[k]
    /\ \E k \in 1..NumResources : available[k] = 0

(* the textbook batch-per-pass formulation: every unfinished process whose *)
(* need fits work as it stood at the start of the pass is granted, in      *)
(* ascending id order, and work is updated only at the end of the pass     *)
Lowest(S) == CHOOSE n \in S : \A m \in S : n <= m

RECURSIVE Ascending(_)
Ascending(S) ==
    IF S = {} THEN <<>>
    ELSE <<processes[Lowest(S)].id>> \o Ascending(S \ {Lowest(S)})

RECURSIVE ReleasedBy(_, _)
ReleasedBy(S, k) ==
    IF S = {} THEN 0
    ELSE processes[Lowest(S)].allocation[k] + ReleasedBy(S \ {Lowest(S)}, k)

RECURSIVE BatchCheck(_, _, _)
BatchCheck(w, done, seq) ==
    LET granted == {n \in (1..NumProcesses) \ done : NeedFits(n, w)}
    IN IF granted = {}
       THEN [safe |-> done = 1..NumProcesses, seq |-> seq]
       ELSE BatchCheck([k \in 1..NumResources |-> w[k] + ReleasedBy(granted, k)],
                       done \cup granted, seq \o Ascending(granted))

Batch == BatchCheck(available, {}, <<>>)

(* C19: the incremental-within-pass check and the batch-per-pass check     *)
(* give the same verdict on every finalized state, and when the verdict is *)
(* safe both sequences are safe orders (they may differ).                  *)
C19_SameVerdictAsBatch ==
    pc = "done" =>
        /\ result.tag = "Some" <=> Batch.safe
        /\ Batch.safe =>
              /\ IsOrdering(Batch.seq) /\ IsSafeOrder(Batch.seq)
              /\ IsOrdering(result.seq) /\ IsSafeOrder(result.seq)

C19_Witness ==
    /\ pc = "done"
    /\ result.tag = "Some"
    /\ Batch.safe
    /\ Batch.seq # result.seq

(* C20: whenever the check returns a safe sequence the final work vector   *)
(* equals the capacity vector.                                             *)
C20_FinalWorkIsCapacity ==
    (pc = "done" /\ result.tag = "Some") =>
        \A k \in 1..NumResources : work[k] = resources[k]

====
